---- MODULE Spec2Model ----
(***************************************************************************)
(* City routing with breadth-first search (gps.py).                        *)
(*                                                                         *)
(* Map.__init__ builds a list of City objects from a relationship listing; *)
(* bfs searches the built map for a path between two city names with a     *)
(* FIFO queue of partial paths; main renders the path as driving           *)
(* instructions.                                                           *)
(*                                                                         *)
(* A City object is identified by its position in Map.cities (Python       *)
(* object identity: City defines neither __eq__ nor __hash__).  A city's   *)
(* neighbors dict is a sequence of entries in insertion order, each keyed  *)
(* by the neighbor City object and carrying (distance, interstate).        *)
(***************************************************************************)
EXTENDS Integers, Sequences, FiniteSets

VARIABLES
    pc,             \* "build" | "built" | "bfs" | "main" | "done"
    relationships,  \* the part of the listing Map.__init__ has consumed so far
    cities,         \* Map.cities
    city,           \* Map.__init__'s local `city`: the current key's City object
    start,          \* bfs argument
    goal,           \* bfs argument
    explored,       \* bfs local
    queue,          \* bfs local
    instructions,   \* the value bfs returned to main
    output          \* what main returns

vars == <<pc, relationships, cities, city, start, goal, explored, queue,
          instructions, output>>

-----------------------------------------------------------------------------
(* Bounds and input sets *)

\* Total number of (neighbor, distance, interstate) triples in a listing
\* built step by step.
MaxDecls == 3

\* Total number of triples in a listing of the search specification.
MaxEdges == 4

\* City names a step-by-step listing may mention.
CityNames == {"A", "B", "C"}

\* City names a query, and a listing of the search specification, may mention.
QueryNames == {"A", "B", "C", "D"}

\* The (distance, interstate) a triple of a step-by-step listing may carry.
Roads == {<<39, "95">>, <<137, "70">>}

\* Python's None, as the result of Map.get_city.
None == 0

\* Python's None, as the result of bfs.
NoPath == [isNone |-> TRUE, path |-> <<>>]

-----------------------------------------------------------------------------
(* City and Map *)

\* City(name, {})
NewCity(name) == [name |-> name, neighbors |-> <<>>]

\* A wrong get_city: `return None` inside the loop, so that only the first
\* city is ever compared.
GetCityFirstOnly(cs, name) ==
    IF Len(cs) > 0 /\ cs[1].name = name THEN 1 ELSE None

\* Map.get_city: the first city of the list with that name, or None.
GetCity(cs, name) ==
    IF \E i \in 1..Len(cs) : cs[i].name = name
    THEN CHOOSE i \in 1..Len(cs) :
            /\ cs[i].name = name
            /\ \A j \in 1..(i - 1) : cs[j].name # name
    ELSE None

\* `n in c.neighbors`, for City objects c and n.
HasNeighbor(cs, c, n) ==
    \E k \in 1..Len(cs[c].neighbors) : cs[c].neighbors[k].city = n

\* c.neighbors[n] = (distance, interstate) on a dict: a new key is appended,
\* an existing key keeps its place and takes the new value.
SetNeighbor(cs, c, n, distance, interstate) ==
    LET e == [city |-> n, distance |-> distance, interstate |-> interstate]
    IN  IF HasNeighbor(cs, c, n)
        THEN [cs EXCEPT ![c].neighbors =
                 [k \in 1..Len(@) |-> IF @[k].city = n THEN e ELSE @[k]]]
        ELSE [cs EXCEPT ![c].neighbors = Append(@, e)]

\* A wrong add_neighbor: the reverse entry is written without the membership
\* test.
AddNeighborOverwrite(cs, self, neighbor, distance, interstate) ==
    LET cs1 == IF ~HasNeighbor(cs, self, neighbor)
               THEN SetNeighbor(cs, self, neighbor, distance, interstate)
               ELSE cs
    IN  SetNeighbor(cs1, neighbor, self, distance, interstate)

\* A wrong add_neighbor: only the forward entry is written.
AddNeighborOneWay(cs, self, neighbor, distance, interstate) ==
    IF ~HasNeighbor(cs, self, neighbor)
    THEN SetNeighbor(cs, self, neighbor, distance, interstate)
    ELSE cs

\* City.add_neighbor
AddNeighbor(cs, self, neighbor, distance, interstate) ==
    LET cs1 == IF ~HasNeighbor(cs, self, neighbor)
               THEN SetNeighbor(cs, self, neighbor, distance, interstate)
               ELSE cs
    IN  IF ~HasNeighbor(cs1, neighbor, self)
        THEN SetNeighbor(cs1, neighbor, self, distance, interstate)
        ELSE cs1

\* Map.__init__, outer loop body up to the inner loop: find or create the
\* key's city.  The result is the new city list and the local `city`.
EnsureCity(cs, city_name) ==
    LET c == GetCity(cs, city_name)
    IN  IF c = None
        THEN [cities |-> Append(cs, NewCity(city_name)), city |-> Len(cs) + 1]
        ELSE [cities |-> cs, city |-> c]

\* Map.__init__, inner loop body: find or create the neighbor, then
\* city.add_neighbor(neighbor, distance, interstate).
LinkNeighbor(cs, c, neighbor_city_name, neighbor_distance, neighbor_interstate) ==
    LET n == EnsureCity(cs, neighbor_city_name)
    IN  AddNeighbor(n.cities, c, n.city, neighbor_distance, neighbor_interstate)

\* Number of triples in a listing.
RECURSIVE NumDecls(_)
NumDecls(rel) ==
    IF rel = <<>> THEN 0 ELSE Len(Head(rel).entries) + NumDecls(Tail(rel))

\* relationships.keys()
Keys(rel) == {rel[i].name : i \in 1..Len(rel)}

-----------------------------------------------------------------------------
(* The program, step by step *)

Init ==
    /\ pc = "build"
    /\ relationships = <<>>
    /\ cities = <<>>
    /\ city = None
    /\ start = ""
    /\ goal = ""
    /\ explored = <<>>
    /\ queue = <<>>
    /\ instructions = NoPath
    /\ output = [status |-> "none", msgs |-> <<>>]

\* Map.__init__: the outer loop takes the next key of the listing.
BuildKey ==
    /\ pc = "build"
    /\ \E city_name \in CityNames \ Keys(relationships) :
          LET r == EnsureCity(cities, city_name)
          IN  /\ cities' = r.cities
              /\ city' = r.city
              /\ relationships' =
                    Append(relationships, [name |-> city_name, entries |-> <<>>])
    /\ UNCHANGED <<pc, start, goal, explored, queue, instructions, output>>

\* Map.__init__: the inner loop takes the next triple of the current key.
BuildNeighbor ==
    /\ pc = "build"
    /\ relationships # <<>>
    /\ NumDecls(relationships) < MaxDecls
    /\ \E name \in CityNames, road \in Roads :
          /\ cities' = LinkNeighbor(cities, city, name, road[1], road[2])
          /\ relationships' =
                [relationships EXCEPT ![Len(relationships)].entries =
                    Append(@, [name |-> name, distance |-> road[1],
                               interstate |-> road[2]])]
    /\ UNCHANGED <<pc, city, start, goal, explored, queue, instructions, output>>

\* Map.__init__: the listing is exhausted and the constructor returns.
BuildDone ==
    /\ pc = "build"
    /\ pc' = "built"
    /\ city' = None
    /\ UNCHANGED <<relationships, cities, start, goal, explored, queue,
                   instructions, output>>

\* Map.__init__ as a whole: the inner loop over one key's triples.
RECURSIVE BuildEntries(_, _, _)
BuildEntries(cs, c, entries) ==
    IF entries = <<>>
    THEN cs
    ELSE BuildEntries(LinkNeighbor(cs, c, Head(entries).name,
                                   Head(entries).distance,
                                   Head(entries).interstate),
                      c, Tail(entries))

\* Map.__init__ as a whole: the outer loop over the listing's keys.
RECURSIVE BuildMap(_, _)
BuildMap(cs, rel) ==
    IF rel = <<>>
    THEN cs
    ELSE LET r == EnsureCity(cs, Head(rel).name)
         IN  BuildMap(BuildEntries(r.cities, r.city, Head(rel).entries),
                      Tail(rel))

-----------------------------------------------------------------------------
(* bfs *)

\* `x in explored`
InList(x, list) == \E i \in 1..Len(list) : list[i] = x

\* A wrong dequeue: queue[0], which reads the front path and leaves it queued.
PeekLeft(q) == [path |-> Head(q), rest |-> q]

\* A wrong dequeue: queue.pop(), which takes the newest path (a stack).
PopRight(q) == [path |-> q[Len(q)], rest |-> SubSeq(q, 1, Len(q) - 1)]

\* queue.popleft(): the front path and the queue left behind.
PopLeft(q) == [path |-> Head(q), rest |-> Tail(q)]

\* A wrong last_node: curr_path[0].
FirstNode(curr_path) == curr_path[1]

\* last_node = curr_path[-1]
LastNode(curr_path) == curr_path[Len(curr_path)]

\* A wrong neighbor loop: curr_path.append(neighbor.name) in place of
\* curr_path + [neighbor.name], so that the path keeps every neighbor seen.
RECURSIVE ExpandInPlace(_, _, _, _, _)
ExpandInPlace(cs, nbrs, curr_path, g, q) ==
    IF nbrs = <<>>
    THEN [found |-> FALSE, path |-> <<>>, queue |-> q]
    ELSE LET new_path == Append(curr_path, cs[Head(nbrs).city].name)
         IN  IF cs[Head(nbrs).city].name = g
             THEN [found |-> TRUE, path |-> new_path, queue |-> q]
             ELSE ExpandInPlace(cs, Tail(nbrs), new_path, g, Append(q, new_path))

\* The loop over city.neighbors, in insertion order: return the extended path
\* at the first neighbor named goal, enqueue the extended path otherwise.
RECURSIVE Expand(_, _, _, _, _)
Expand(cs, nbrs, curr_path, g, q) ==
    IF nbrs = <<>>
    THEN [found |-> FALSE, path |-> <<>>, queue |-> q]
    ELSE LET new_path == Append(curr_path, cs[Head(nbrs).city].name)
         IN  IF cs[Head(nbrs).city].name = g
             THEN [found |-> TRUE, path |-> new_path, queue |-> q]
             ELSE Expand(cs, Tail(nbrs), curr_path, g, Append(q, new_path))

\* main calls bfs(road_map, start, destination); bfs initialises its locals.
BfsCall ==
    /\ pc = "built"
    /\ \E s \in QueryNames, g \in QueryNames :
          /\ start' = s
          /\ goal' = g
          /\ queue' = << <<s>> >>
    /\ explored' = <<>>
    /\ pc' = "bfs"
    /\ UNCHANGED <<relationships, cities, city, instructions, output>>

\* One iteration of `while queue`.
BfsStep ==
    /\ pc = "bfs"
    /\ queue # <<>>
    /\ LET popped == PopLeft(queue)
           curr_path == popped.path
           last_node == LastNode(curr_path)
       IN  IF ~InList(last_node, explored)
           THEN LET c == GetCity(cities, last_node)
                    r == IF c # None /\ cities[c].neighbors # <<>>
                         THEN Expand(cities, cities[c].neighbors, curr_path,
                                     goal, popped.rest)
                         ELSE [found |-> FALSE, path |-> <<>>,
                               queue |-> popped.rest]
                IN  IF r.found
                    THEN /\ instructions' = [isNone |-> FALSE, path |-> r.path]
                         /\ pc' = "main"
                         /\ queue' = r.queue
                         /\ explored' = explored
                    ELSE /\ queue' = r.queue
                         /\ explored' = Append(explored, last_node)
                         /\ UNCHANGED <<pc, instructions>>
           ELSE /\ queue' = popped.rest
                /\ UNCHANGED <<pc, explored, instructions>>
    /\ UNCHANGED <<relationships, cities, city, start, goal, output>>

\* The queue is empty: print "No Path Found", return None.
BfsNotFound ==
    /\ pc = "bfs"
    /\ queue = <<>>
    /\ instructions' = NoPath
    /\ pc' = "main"
    /\ UNCHANGED <<relationships, cities, city, start, goal, explored, queue,
                   output>>

-----------------------------------------------------------------------------
(* main *)

\* c.neighbors[n]
Lookup(cs, c, n) ==
    LET k == CHOOSE k \in 1..Len(cs[c].neighbors) : cs[c].neighbors[k].city = n
    IN  cs[c].neighbors[k]

\* Whether the body of main's loop raises at index i (position i + 1 of the
\* path): the city or the next city is not on the map (None has no
\* neighbors attribute, or is no key), or the edge is no key of neighbors.
Raises(cs, path, i) ==
    /\ i # 0
    /\ i < Len(path) - 1
    /\ LET current_city == GetCity(cs, path[i + 1])
           next == GetCity(cs, path[i + 2])
       IN  \/ current_city = None
           \/ ~HasNeighbor(cs, current_city, next)

\* The message main builds at index i of enumerate(instructions).
Msg(cs, path, i) ==
    IF i = 0
    THEN [kind |-> "Starting at", city |-> path[1], distance |-> 0,
          interstate |-> ""]
    ELSE IF i < Len(path) - 1
    THEN LET next_city == path[i + 2]
             e == Lookup(cs, GetCity(cs, path[i + 1]), GetCity(cs, next_city))
         IN  [kind |-> "Drive", city |-> next_city, distance |-> e.distance,
              interstate |-> e.interstate]
    ELSE [kind |-> "You will arrive at your destination", city |-> "",
          distance |-> 0, interstate |-> ""]

\* main after bfs returned: "No path found" for None (or an empty list), the
\* messages of the loop otherwise; an exception is caught and main returns
\* None.
Main ==
    /\ pc = "main"
    /\ output' =
          IF instructions.isNone \/ instructions.path = <<>>
          THEN [status |-> "No path found", msgs |-> <<>>]
          ELSE IF \E i \in 0..(Len(instructions.path) - 1) :
                     Raises(cities, instructions.path, i)
          THEN [status |-> "Error", msgs |-> <<>>]
          ELSE [status |-> "ok",
                msgs |-> [k \in 1..Len(instructions.path) |->
                             Msg(cities, instructions.path, k - 1)]]
    /\ pc' = "done"
    /\ UNCHANGED <<relationships, cities, city, start, goal, explored, queue,
                   instructions>>

\* The build of the map, step by step, from an empty map.
Next ==
    \/ BuildKey
    \/ BuildNeighbor
    \/ BuildDone

Spec == Init /\ [][Next]_vars

-----------------------------------------------------------------------------
(* Searches over built maps *)

\* The names of QueryNames, and those of CityNames, in order.
NameOrder == <<"A", "B", "C", "D">>

ShortOrder == <<"A", "B", "C">>

\* Total number of triples in a listing of the termination specification.
MaxLiveEdges == 4

\* The triples of a listing in the order Map.__init__ meets them, each with
\* its key: sequences of at most n (key, neighbor) pairs of places in
\* `order`.  A key's triples are together, as in a dict, and the names come
\* into the listing in the order of `order`: listings that differ only in
\* how the cities are called are taken once, and the queries range over all
\* names.
FlatListings(order, n) ==
    UNION { { f \in [1..m -> (1..Len(order)) \X (1..Len(order))] :
                /\ \A i \in 1..m, k \in 1..m :
                      (i < k /\ f[i][1] = f[k][1]) =>
                          \A j \in i..k : f[j][1] = f[i][1]
                /\ \A k \in 1..m :
                      /\ \/ f[k][1] = 1
                         \/ \E i \in 1..(k - 1) :
                               f[k][1] - 1 \in {f[i][1], f[i][2]}
                      /\ \/ f[k][2] = 1
                         \/ f[k][2] - 1 = f[k][1]
                         \/ \E i \in 1..(k - 1) :
                               f[k][2] - 1 \in {f[i][1], f[i][2]} } :
            m \in 0..n }

\* The dict a flat listing stands for.  The k-th triple carries the distance
\* 10 * k, so that every declaration is told apart from every other.
RECURSIVE AsListing(_, _, _, _)
AsListing(order, f, k, rel) ==
    IF k > Len(f)
    THEN rel
    ELSE LET key == order[f[k][1]]
             e == [name |-> order[f[k][2]], distance |-> 10 * k,
                   interstate |-> "95"]
         IN  IF rel # <<>> /\ rel[Len(rel)].name = key
             THEN AsListing(order, f, k + 1,
                            [rel EXCEPT ![Len(rel)].entries = Append(@, e)])
             ELSE AsListing(order, f, k + 1,
                            Append(rel, [name |-> key, entries |-> <<e>>]))

\* Map(connections) has returned, for a listing of at most n triples over
\* the names of `order`.
Built(order, n) ==
    /\ pc = "built"
    /\ \E f \in FlatListings(order, n) :
          /\ relationships = AsListing(order, f, 1, <<>>)
          /\ cities = BuildMap(<<>>, relationships)
    /\ city = None
    /\ start = ""
    /\ goal = ""
    /\ explored = <<>>
    /\ queue = <<>>
    /\ instructions = NoPath
    /\ output = [status |-> "none", msgs |-> <<>>]

InitSearch == Built(NameOrder, MaxEdges)

InitLive == Built(ShortOrder, MaxLiveEdges)

NextSearch ==
    \/ BfsCall
    \/ BfsStep
    \/ BfsNotFound
    \/ Main

\* Searches over the maps of up to MaxEdges triples on four names.
SpecSearch == InitSearch /\ [][NextSearch]_vars

\* Searches over the maps of up to MaxLiveEdges triples on three names.  bfs
\* and main run to completion once called: single-threaded code with no
\* suspension point.
SpecLive == InitLive /\ [][NextSearch]_vars /\ WF_vars(NextSearch)

-----------------------------------------------------------------------------
(* Notions the properties are stated in *)

\* The City objects of the map.
Objects == 1..Len(cities)

\* The places of a listing's triples: <<i, k>> is the k-th triple of the
\* i-th key.
Places(rel) ==
    UNION { {<<i, k>> : k \in 1..Len(rel[i].entries)} : i \in 1..Len(rel) }

\* The triple at a place, with its key.
DeclAt(rel, x) ==
    [key |-> rel[x[1]].name,
     name |-> rel[x[1]].entries[x[2]].name,
     distance |-> rel[x[1]].entries[x[2]].distance,
     interstate |-> rel[x[1]].entries[x[2]].interstate]

\* Map.__init__ processes the triple at x before the triple at y.
Before(x, y) == x[1] < y[1] \/ (x[1] = y[1] /\ x[2] < y[2])

\* The identifiers a listing mentions, as a key or as a neighbor.
Identifiers(rel) ==
    Keys(rel) \cup {rel[x[1]].entries[x[2]].name : x \in Places(rel)}

\* Two declarations are about the same unordered pair of identifiers.
SamePair(d, e) == {d.key, d.name} = {e.key, e.name}

\* The place of the first declaration about the pair declared at place x.
FirstOf(rel, x) ==
    CHOOSE y \in Places(rel) :
        /\ SamePair(DeclAt(rel, y), DeclAt(rel, x))
        /\ \A z \in Places(rel) :
              SamePair(DeclAt(rel, z), DeclAt(rel, x)) => ~Before(z, y)

\* The entries of object a's neighbors for object b.
EntriesFor(a, b) ==
    {k \in 1..Len(cities[a].neighbors) : cities[a].neighbors[k].city = b}

\* There is a road from the city named a to the city named b.
Road(a, b) ==
    \E i \in Objects : \E k \in 1..Len(cities[i].neighbors) :
        /\ cities[i].name = a
        /\ cities[cities[i].neighbors[k].city].name = b

\* The name a belongs to a city of the map.
IsNode(a) == \E i \in Objects : cities[i].name = a

\* All sequences of two to Len(NameOrder) names that follow roads from s to
\* g.  A shortest path between distinct cities repeats no city, so it is
\* among them whenever g can be reached from s.
Routes(s, g) ==
    UNION { { p \in [1..n -> QueryNames] :
                /\ p[1] = s
                /\ p[n] = g
                /\ \A k \in 1..(n - 1) : Road(p[k], p[k + 1]) } :
            n \in 2..Len(NameOrder) }

\* The least number of edges over a non-empty set of routes.
MinHops(routes) ==
    CHOOSE h \in 1..Len(NameOrder) :
        /\ \E p \in routes : Len(p) - 1 = h
        /\ \A p \in routes : Len(p) - 1 >= h

\* bfs has returned a path.
Returned == pc \in {"main", "done"} /\ ~instructions.isNone

-----------------------------------------------------------------------------
(* Properties of the build, under Spec *)

\* C6. Edge symmetry: in every state of the build, for all City objects a
\* and b, b is in a's neighbors exactly when a is in b's, and the two entries
\* carry the same distance and the same interstate.
EdgeSymmetry ==
    \A a \in Objects, b \in Objects :
        /\ HasNeighbor(cities, a, b) <=> HasNeighbor(cities, b, a)
        /\ HasNeighbor(cities, a, b) =>
              /\ Lookup(cities, a, b).distance = Lookup(cities, b, a).distance
              /\ Lookup(cities, a, b).interstate = Lookup(cities, b, a).interstate

\* A pair of distinct cities is linked after the listing declared it from
\* both ends with different distances.
EdgeSymmetryWitness ==
    \E x \in Places(relationships), y \in Places(relationships) :
        LET d == DeclAt(relationships, x)
            e == DeclAt(relationships, y)
        IN  /\ Before(x, y)
            /\ d.key # d.name
            /\ e.key = d.name
            /\ e.name = d.key
            /\ e.distance # d.distance
            /\ HasNeighbor(cities, GetCity(cities, d.key),
                           GetCity(cities, d.name))

\* Every declared pair carries, in both directions and in exactly one entry
\* each, the distance and interstate of its first declaration.
FirstWins ==
    \A x \in Places(relationships) :
        LET first == DeclAt(relationships, FirstOf(relationships, x))
            a == GetCity(cities, DeclAt(relationships, x).key)
            b == GetCity(cities, DeclAt(relationships, x).name)
        IN  /\ a # None
            /\ b # None
            /\ Cardinality(EntriesFor(a, b)) = 1
            /\ Cardinality(EntriesFor(b, a)) = 1
            /\ Lookup(cities, a, b).distance = first.distance
            /\ Lookup(cities, a, b).interstate = first.interstate
            /\ Lookup(cities, b, a).distance = first.distance
            /\ Lookup(cities, b, a).interstate = first.interstate

\* The step consumed a triple whose pair the listing had declared before.
RepeatedDecl ==
    /\ Cardinality(Places(relationships')) =
          Cardinality(Places(relationships)) + 1
    /\ \E x \in Places(relationships') \ Places(relationships) :
          \E y \in Places(relationships) :
              SamePair(DeclAt(relationships', x), DeclAt(relationships, y))

\* C7. Duplicate-edge first-wins: after every step of the build each declared
\* pair has, in both directions, exactly the distance and interstate of the
\* first declaration processed, and a step that processes a later declaration
\* of a pair leaves the whole map unchanged.
DuplicateEdgeFirstWins ==
    /\ []FirstWins
    /\ [][RepeatedDecl => cities' = cities]_vars

\* A pair was declared from one end and later, with another distance and
\* another interstate, from the other end.
DuplicateEdgeWitness ==
    /\ pc = "built"
    /\ \E x \in Places(relationships), y \in Places(relationships) :
          LET d == DeclAt(relationships, x)
              e == DeclAt(relationships, y)
          IN  /\ Before(x, y)
              /\ d.key # d.name
              /\ e.key = d.name
              /\ e.name = d.key
              /\ e.distance # d.distance
              /\ e.interstate # d.interstate

\* C8. Node set: the names of the cities are exactly the identifiers the
\* consumed listing mentions, no two cities share a name, and get_city finds
\* each such identifier and returns None for any other.
NodeSet ==
    /\ {cities[i].name : i \in Objects} = Identifiers(relationships)
    /\ \A i \in Objects, j \in Objects :
          cities[i].name = cities[j].name => i = j
    /\ \A n \in QueryNames :
          IF n \in Identifiers(relationships)
          THEN /\ GetCity(cities, n) # None
               /\ cities[GetCity(cities, n)].name = n
          ELSE GetCity(cities, n) = None

\* The finished map holds a city that the listing names only as a neighbor,
\* and one that is named several times.
NodeSetWitness ==
    /\ pc = "built"
    /\ \E i \in Objects : cities[i].name \notin Keys(relationships)
    /\ Len(cities) < Cardinality(Places(relationships))

-----------------------------------------------------------------------------
(* Properties of the search, under SpecSearch *)

\* C1. BFS minimality: when bfs has returned for distinct start and goal
\* with goal reachable from start, it returned a path, and the path has the
\* least number of edges over all routes from start to goal.
BfsMinimality ==
    (pc = "main" /\ start # goal) =>
        LET routes == Routes(start, goal)
        IN  routes # {} =>
               /\ ~instructions.isNone
               /\ Len(instructions.path) - 1 = MinHops(routes)

\* bfs returned a two-hop path although the first city it expanded also
\* starts a three-hop route to the goal.
BfsMinimalityWitness ==
    /\ pc = "main"
    /\ start # goal
    /\ ~instructions.isNone
    /\ Len(instructions.path) = 3
    /\ \E p \in Routes(start, goal) :
          /\ Len(p) = 4
          /\ \A i \in 1..4, j \in 1..4 : p[i] = p[j] => i = j

\* C2. No-path correctness: for distinct start and goal, bfs returns None
\* exactly when no route joins start to goal (start or goal missing from the
\* map, or in different components); what it returns otherwise is a
\* non-empty path from start to goal.
NoPathCorrectness ==
    (pc = "main" /\ start # goal) =>
        /\ instructions.isNone <=> Routes(start, goal) = {}
        /\ ~instructions.isNone =>
              /\ Len(instructions.path) >= 2
              /\ instructions.path[1] = start
              /\ instructions.path[Len(instructions.path)] = goal

\* bfs returned None for two cities of the map that no route joins, after
\* expanding more than the start city.
NoPathWitness ==
    /\ pc = "main"
    /\ start # goal
    /\ IsNode(start)
    /\ IsNode(goal)
    /\ instructions.isNone
    /\ Len(explored) >= 2

\* C3. Path validity: a path bfs returned starts at start, ends at goal, and
\* every two consecutive names in it are cities of the map each of which is
\* in the other's neighbors; main's rendering of it never hits a missing
\* edge.
PathValidity ==
    /\ Returned =>
          LET path == instructions.path
          IN  /\ path # <<>>
              /\ path[1] = start
              /\ path[Len(path)] = goal
              /\ \A k \in 1..(Len(path) - 1) :
                    LET a == GetCity(cities, path[k])
                        b == GetCity(cities, path[k + 1])
                    IN  /\ a # None
                        /\ b # None
                        /\ HasNeighbor(cities, a, b)
                        /\ HasNeighbor(cities, b, a)
    /\ pc = "done" => output.status # "Error"

\* main rendered a path of three hops.
PathValidityWitness ==
    /\ pc = "done"
    /\ output.status = "ok"
    /\ Len(instructions.path) = 4

\* C4, as claimed: a path bfs returned holds no name twice.
SimplePaths ==
    Returned =>
        \A i \in 1..Len(instructions.path), j \in 1..Len(instructions.path) :
            instructions.path[i] = instructions.path[j] => i = j

\* C5, as claimed: for start = goal, a city of the map, bfs returns [start].
SameNodeTrivialPath ==
    (pc = "main" /\ start = goal /\ IsNode(start)) =>
        instructions = [isNone |-> FALSE, path |-> <<start>>]

\* C9. Termination, under SpecLive: every bfs call returns, with a path or
\* with None.
Termination == (pc = "bfs") ~> (pc = "main")

\* bfs is running on a map with a self-loop and holds a queued path that ends
\* in a city it has explored already.
TerminationWitness ==
    /\ pc = "bfs"
    /\ \E a \in QueryNames : Road(a, a)
    /\ \E k \in 1..Len(queue) : InList(LastNode(queue[k]), explored)

\* The "Drive" messages of main's output.
IsDrive(m) == m.kind = "Drive"

\* C10, as claimed: when bfs found a path, main's output holds one "Drive"
\* message for each consecutive pair of the path, in order, with the pair's
\* distance and interstate.
RenderingCoversEveryLeg ==
    (pc = "done" /\ ~instructions.isNone) =>
        LET path == instructions.path
            drives == SelectSeq(output.msgs, IsDrive)
        IN  /\ output.status = "ok"
            /\ Len(drives) = Len(path) - 1
            /\ \A k \in 1..(Len(path) - 1) :
                  LET e == Lookup(cities, GetCity(cities, path[k]),
                                  GetCity(cities, path[k + 1]))
                  IN  /\ k <= Len(drives)
                      /\ drives[k].city = path[k + 1]
                      /\ drives[k].distance = e.distance
                      /\ drives[k].interstate = e.interstate

====
